---------------------------- MODULE Spec2Model ----------------------------
(***************************************************************************)
(* A model of ttools: the cyclic cartesian-product generator sim_product   *)
(* (src/ttools/itertools.py), its list form sim_product_list, and the      *)
(* co-sort sort_together / sort_by (src/ttools/sort.py).                   *)
(*                                                                         *)
(* A generator object is a stack of layers: layer k runs the body of       *)
(* sim_product over the first k argument sequences; layer k > 1 owns the   *)
(* cursor (index, start, iters) and pulls layer k-1 once per draw.         *)
(* Python generators are lazy: calling sim_product only builds the object, *)
(* the body runs at the first next().  A StopIteration raised in a         *)
(* generator body reaches the caller as RuntimeError (PEP 479; the source  *)
(* uses the type-parameter syntax of Python 3.12).                         *)
(***************************************************************************)
EXTENDS Integers, Sequences, FiniteSets, TLC

VARIABLES
    args,    \* the argument sequences of sim_product / sim_product_list
    stop,    \* the stop flag of the generator
    gen,     \* the generator object: layer id -> [gs, index, start, iters, pulls]
    res,     \* what the last operation on the generator gave the caller
    out,     \* the combinations the generator has yielded so far, in order
    calls,   \* the number of next() calls made on the generator
    loop,    \* a consumer loop iterating the generator from its creation
    num,     \* the num argument of sim_product_list
    lst,     \* the outcome of sim_product_list
    sorter,  \* the sorter argument of sort_together / sort_by
    others,  \* the other sequences given to sort_together / sort_by
    key,     \* the key argument: "None" or the name of a function
    reverse, \* the reverse argument
    srt,     \* the outcome of the last sort_together / sort_by call
    mmvalues, \* the values argument of the min / max functions, a list
    mmkey,   \* their key argument: "None" or the name of a function
    mm       \* the outcome of the last min / max call

genvars == <<args, stop, gen, res, out, calls, loop>>
listvars == <<num, lst>>
sortvars == <<sorter, others, key, reverse, srt>>
mmvars == <<mmvalues, mmkey, mm>>
vars == <<genvars, listvars, sortvars, mmvars>>

(***************************************************************************)
(* Bounds of the model.                                                    *)
(***************************************************************************)
MaxN == 3        \* at most this many argument sequences
MaxLen == 3      \* each argument sequence has at most this many elements
MaxCycles == 2   \* next() is called for at most this many full passes ...
MaxExtra == 2    \* ... and this many calls more
MaxNum == 7      \* sim_product_list is asked for at most this many combinations
MaxSortLen == 3  \* the sorter has at most this many elements
MaxOthers == 2   \* at most this many other sequences are sorted along
MaxValues == 3   \* the min / max functions get at most this many values

(***************************************************************************)
(* Arguments.  The k-th sequence of length l is <<10k, 10k+1, ...>>: its   *)
(* elements are pairwise distinct and tell the columns apart.              *)
(***************************************************************************)
MkSeq(k, l) == [i \in 1..l |-> 10 * k + (i - 1)]

ArgLists ==
    UNION { { [k \in 1..n |-> MkSeq(k, ls[k])] : ls \in [1..n -> 0..MaxLen] }
            : n \in 0..MaxN }

NonEmptyArgs(a) == Len(a) >= 1 /\ \A k \in 1..Len(a) : Len(a[k]) >= 1

RECURSIVE ProductSize(_)
ProductSize(a) ==
    IF Len(a) = 0 THEN 1
    ELSE ProductSize(SubSeq(a, 1, Len(a) - 1)) * Len(a[Len(a)])

(***************************************************************************)
(* math.lcm and functools.reduce(operator.mul, map(len, ...)).             *)
(***************************************************************************)
RECURSIVE gcd(_, _)
gcd(a, b) == IF b = 0 THEN a ELSE gcd(b, a % b)

lcm(a, b) == IF a = 0 \/ b = 0 THEN 0 ELSE (a * b) \div gcd(a, b)

RECURSIVE reduce_mul_len(_)
reduce_mul_len(seqs) ==
    IF Len(seqs) = 1 THEN Len(seqs[1])
    ELSE reduce_mul_len(SubSeq(seqs, 1, Len(seqs) - 1)) * Len(seqs[Len(seqs)])

(***************************************************************************)
(* The generator object.                                                   *)
(***************************************************************************)
LayerIds(a) == IF Len(a) = 0 THEN {0} ELSE 1..Len(a)

Top(a) == Len(a)

\* pulls counts the values the layer has yielded.
NoLayer == [gs |-> "none", index |-> 0, start |-> 0, iters |-> 0, pulls |-> 0]

\* An exception leaves the body of layer k: the generator is closed, and a
\* StopIteration is replaced by RuntimeError.
GenRaise(L, k, exc) ==
    [res |-> IF exc = "StopIteration" THEN "RuntimeError" ELSE exc,
     val |-> <<>>,
     L   |-> [L EXCEPT ![k].gs = "closed"]]

GenYield(L, k, c, val) ==
    [res |-> "yield", val |-> val,
     L |-> [L EXCEPT ![k] = [c EXCEPT !.gs = "suspended", !.pulls = c.pulls + 1]]]

\* if stop and index == args_len - 1
stop_single(stp, index, args_len) == stp /\ index = args_len - 1

\* the body for one sequence
single_next(a, stp, L) ==
    LET c == L[1]
        args_len == Len(a[1])
        resumed == c.gs = "suspended"
    IN  IF resumed /\ stop_single(stp, c.index, args_len)
        THEN GenRaise(L, 1, "StopIteration")
        ELSE LET index == IF resumed THEN (c.index + 1) % args_len ELSE 0
             IN  IF index >= args_len
                 THEN GenRaise(L, 1, "IndexError")
                 ELSE GenYield(L, 1, [c EXCEPT !.index = index], <<a[1][index + 1]>>)

\* A cursor that never shifts its start (no phase stagger).
advance_cursor_noshift(c, l) == [c EXCEPT !.index = c.index + 1, !.iters = c.iters + 1]

\* A cursor that moves start but forgets index = start.
advance_cursor_stale_index(c, l) ==
    LET iters == c.iters + 1
    IN  IF iters % l = 0
        THEN [c EXCEPT !.index = c.index + 1, !.start = c.start + 1, !.iters = iters]
        ELSE [c EXCEPT !.index = c.index + 1, !.iters = iters]

\* index += 1; iters += 1; if iters % lcm == 0: start += 1; index = start
advance_cursor(c, l) ==
    LET iters == c.iters + 1
    IN  IF iters % l = 0
        THEN [c EXCEPT !.index = c.start + 1, !.start = c.start + 1, !.iters = iters]
        ELSE [c EXCEPT !.index = c.index + 1, !.iters = iters]

\* A reset that forgets to rewind index.
reset_cursor_keep_index(c) == [c EXCEPT !.start = 0, !.iters = 0]

\* index, start, iters = 0, 0, 0
reset_cursor(c) == [c EXCEPT !.index = 0, !.start = 0, !.iters = 0]

\* A stop test that fires one draw early.
stop_nested_early(stp, iters, reset_val) == stp /\ iters = reset_val - 1

\* if iters == reset_val: if stop: raise StopIteration
stop_nested(stp, iters, reset_val) == stp /\ iters = reset_val

\* An inner generator built with the default stop=True.
inner_stop_default == TRUE

\* sim_product(*args[:-1], stop=False): the stop flag of the inner generator
inner_stop == FALSE

RECURSIVE gen_next(_, _, _, _)
\* the body for more than one sequence (and for none)
nested_next(a, k, stp, L) ==
    IF k = 0
    THEN GenRaise(L, k, "TypeError")
    ELSE
    LET c == L[k]
        first_iterator_len == reduce_mul_len(SubSeq(a, 1, k - 1))
        len_val == Len(a[k])
        l == lcm(first_iterator_len, len_val)
        reset_val == first_iterator_len * len_val
        resumed == c.gs = "suspended"
        moved == IF resumed THEN advance_cursor(c, l) ELSE reset_cursor(c)
        full == resumed /\ moved.iters = reset_val
        cur == IF full THEN reset_cursor(moved) ELSE moved
        L1 == IF resumed THEN L ELSE [L EXCEPT ![k - 1].gs = "created"]
        sub == gen_next(a, k - 1, inner_stop, L1)
    IN  IF resumed /\ stop_nested(stp, moved.iters, reset_val)
        THEN GenRaise(L, k, "StopIteration")
        ELSE IF sub.res # "yield"
        THEN GenRaise(sub.L, k, sub.res)
        ELSE IF len_val = 0
        THEN GenRaise(sub.L, k, "ZeroDivisionError")
        ELSE GenYield(sub.L, k, cur, Append(sub.val, a[k][(cur.index % len_val) + 1]))

\* next() on the generator of layer k
gen_next(a, k, stp, L) ==
    IF L[k].gs = "closed"
    THEN [res |-> "StopIteration", val |-> <<>>, L |-> L]
    ELSE IF k = 1 THEN single_next(a, stp, L)
    ELSE nested_next(a, k, stp, L)

\* sim_product(*args, stop=stop): the generator object, its body not yet run
sim_product(a) == [k \in LayerIds(a) |-> IF k = Top(a) THEN [NoLayer EXCEPT !.gs = "created"] ELSE NoLayer]

(***************************************************************************)
(* A consumer loop (for, list(...), set(...)) over the generator: it ends  *)
(* normally at StopIteration; any other exception propagates to its caller.*)
(***************************************************************************)
loop_after(lp, r) ==
    IF lp # "iterating" THEN lp
    ELSE IF r = "yield" THEN "iterating"
    ELSE IF r = "StopIteration" THEN "finished"
    ELSE "error"

(***************************************************************************)
(* The generator as a state machine.                                       *)
(***************************************************************************)
CallCap(a) == (IF NonEmptyArgs(a) THEN MaxCycles * ProductSize(a) ELSE 0) + MaxExtra

None == [type |-> "NoneType", val |-> 0]
NoList == [res |-> "none", val |-> <<>>, draws |-> 0]
NoSort == [op |-> "none", res |-> "none", msg |-> "", val |-> <<>>]

\* No generator, no list call and no sort in this behaviour.
GenIdle ==
    /\ args = <<>> /\ stop = FALSE /\ gen = [k \in LayerIds(<<>>) |-> NoLayer]
    /\ res = "none" /\ out = <<>> /\ calls = 0 /\ loop = "iterating"

ListIdle == num = None /\ lst = NoList

SortIdle ==
    sorter = <<>> /\ others = <<>> /\ key = "None" /\ reverse = FALSE /\ srt = NoSort

NoMinMax == [op |-> "none", res |-> "none", val |-> <<>>]

MinMaxIdle == mmvalues = <<>> /\ mmkey = "None" /\ mm = NoMinMax

Init ==
    /\ args \in ArgLists
    /\ stop \in BOOLEAN
    /\ gen = [k \in LayerIds(args) |-> NoLayer]
    /\ res = "none"
    /\ out = <<>>
    /\ calls = 0
    /\ loop = "iterating"
    /\ ListIdle
    /\ SortIdle
    /\ MinMaxIdle

Create ==
    /\ res = "none"
    /\ gen' = sim_product(args)
    /\ res' = "generator"
    /\ UNCHANGED <<args, stop, out, calls, loop, listvars, sortvars, mmvars>>

NextCall ==
    /\ res # "none"
    /\ calls < CallCap(args)
    /\ LET r == gen_next(args, Top(args), stop, gen)
       IN  /\ gen' = r.L
           /\ res' = r.res
           /\ out' = IF r.res = "yield" THEN Append(out, r.val) ELSE out
           /\ loop' = loop_after(loop, r.res)
    /\ calls' = calls + 1
    /\ UNCHANGED <<args, stop, listvars, sortvars, mmvars>>

Next == Create \/ NextCall

Spec == Init /\ [][Next]_vars

(***************************************************************************)
(* sim_product_list.  A num argument is [type, val]: val is the number an  *)
(* int or a bool stands for (True is 1, False is 0), and the number a      *)
(* float or a str is written as.                                           *)
(***************************************************************************)
Int_(v) == [type |-> "int", val |-> v]
True_ == [type |-> "bool", val |-> 1]
False_ == [type |-> "bool", val |-> 0]
Float_(v) == [type |-> "float", val |-> v]
Str_(v) == [type |-> "str", val |-> v]

NumValues ==
    {None, True_, False_, Float_(2), Str_(3)} \cup {Int_(v) : v \in -1..MaxNum}

\* isinstance(num, int): bool is a subclass of int
isinstance_int(n) == n.type \in {"int", "bool"}

\* A validation that lets 0 through.
num_invalid_zero_ok(n) == ~isinstance_int(n) \/ n.val < 0

\* not isinstance(num, int) or num < 1
num_invalid(n) == ~isinstance_int(n) \/ n.val < 1

\* A list call that builds its generator with the default stop=True.
list_stop_default == TRUE

\* sim_product(*args, stop=False): the stop flag of the generator num draws from
list_stop == FALSE

RECURSIVE list_of(_, _, _, _)
\* list(generator): draw until StopIteration; any other exception propagates
list_of(a, stp, L, acc) ==
    LET r == gen_next(a, Top(a), stp, L)
    IN  IF r.res = "yield" THEN list_of(a, stp, r.L, Append(acc, r.val))
        ELSE IF r.res = "StopIteration"
        THEN [res |-> "list", val |-> acc, draws |-> Len(acc) + 1]
        ELSE [res |-> r.res, val |-> <<>>, draws |-> Len(acc) + 1]

RECURSIVE take(_, _, _, _, _)
\* [tuple(next(iterator)) for _ in range(num)]
take(a, stp, L, n, acc) ==
    IF n = 0 THEN [res |-> "list", val |-> acc, draws |-> Len(acc)]
    ELSE LET r == gen_next(a, Top(a), stp, L)
         IN  IF r.res = "yield" THEN take(a, stp, r.L, n - 1, Append(acc, r.val))
             ELSE [res |-> r.res, val |-> <<>>, draws |-> Len(acc) + 1]

sim_product_list(a, n) ==
    IF n = None THEN list_of(a, TRUE, sim_product(a), <<>>)
    ELSE IF num_invalid(n) THEN [res |-> "ValueError", val |-> <<>>, draws |-> 0]
    ELSE take(a, list_stop, sim_product(a), n.val, <<>>)

(***************************************************************************)
(* sim_product_list as a state machine, beside a stop=False generator over *)
(* the same arguments that is drawn from one next() at a time.             *)
(***************************************************************************)
InitList ==
    /\ args \in ArgLists
    /\ stop = FALSE
    /\ gen = [k \in LayerIds(args) |-> NoLayer]
    /\ res = "none"
    /\ out = <<>>
    /\ calls = 0
    /\ loop = "iterating"
    /\ num \in NumValues
    /\ lst = NoList
    /\ SortIdle
    /\ MinMaxIdle

ListCall ==
    /\ lst.res = "none"
    /\ lst' = sim_product_list(args, num)
    /\ UNCHANGED <<genvars, num, sortvars, mmvars>>

RefCreate == Create

RefDraw ==
    /\ isinstance_int(num)
    /\ calls < num.val
    /\ NextCall

NextList == ListCall \/ RefCreate \/ RefDraw

SpecList == InitList /\ [][NextList]_vars

(***************************************************************************)
(* sort_together and sort_by.                                              *)
(***************************************************************************)
SortVals == {0, 1, 2}

KeyNames == {"None", "neg", "mod2"}

\* the key functions handed in: lambda x: -x and lambda x: x % 2
apply_key(k, x) ==
    IF k = "neg" THEN 0 - x
    ELSE IF k = "mod2" THEN x % 2
    ELSE x

\* key_sorter = (lambda x: key(x[0])) if key is not None else (lambda x: x[0])
key_sorter(k, row) == apply_key(k, row[1])

\* The i-th of the other sequences, of length l: <<100i+1, 100i+2, ...>>,
\* so that an element names the column and the row it came from.
MkOther(i, l) == [r \in 1..l |-> 100 * i + r]

SortLens(n) == {l \in {n - 1, n, n + 1} : l >= 0}

\* A zip without strict: it stops at the shortest sequence.
zip_shortest(s, os) ==
    LET n == CHOOSE m \in 0..Len(s) :
                 /\ \A j \in 1..Len(os) : m <= Len(os[j])
                 /\ (m = Len(s) \/ \E j \in 1..Len(os) : m = Len(os[j]))
    IN  [res |-> "ok",
         val |-> [i \in 1..n |-> <<s[i]>> \o [j \in 1..Len(os) |-> os[j][i]]]]

\* zip(sorter, *others, strict=True), consumed: the rows, or ValueError
zip_strict(s, os) ==
    IF \E j \in 1..Len(os) : Len(os[j]) # Len(s)
    THEN [res |-> "ValueError", val |-> <<>>]
    ELSE [res |-> "ok",
          val |-> [i \in 1..Len(s) |-> <<s[i]>> \o [j \in 1..Len(os) |-> os[j][i]]]]

Reverse(s) == [i \in 1..Len(s) |-> s[Len(s) + 1 - i]]

\* r goes behind every row of the sorted s whose key is not greater
insert_row(s, r, k) ==
    LET pos == Cardinality({i \in 1..Len(s) : key_sorter(k, s[i]) <= key_sorter(k, r)})
    IN  SubSeq(s, 1, pos) \o <<r>> \o SubSeq(s, pos + 1, Len(s))

RECURSIVE stable_sort(_, _)
stable_sort(rows, k) ==
    IF Len(rows) = 0 THEN <<>>
    ELSE insert_row(stable_sort(SubSeq(rows, 1, Len(rows) - 1), k), rows[Len(rows)], k)

\* A descending sort that reverses the ascending one.
sorted_reversed_after(rows, k, rev) ==
    IF rev THEN Reverse(stable_sort(rows, k)) ELSE stable_sort(rows, k)

\* sorted(zipped, key=key_sorter, reverse=reverse): stable in both directions
sorted(rows, k, rev) ==
    IF rev THEN Reverse(stable_sort(Reverse(rows), k)) ELSE stable_sort(rows, k)

\* tuple(zip(*sorted_values, strict=False)): the columns of the rows
unzip(rows) ==
    IF Len(rows) = 0 THEN <<>>
    ELSE [j \in 1..Len(rows[1]) |-> [i \in 1..Len(rows) |-> rows[i][j]]]

sort_together(s, os, k, rev) ==
    LET zipped == zip_strict(s, os)
    IN  IF zipped.res = "ValueError"
        THEN [op |-> "sort_together", res |-> "ValueError",
              msg |-> "Could not sort the values.", val |-> <<>>]
        ELSE [op |-> "sort_together", res |-> "ok", msg |-> "",
              val |-> unzip(sorted(zipped.val, k, rev))]

\* values[1:]
sort_by(s, os, k, rev) ==
    LET values == sort_together(s, os, k, rev)
    IN  IF values.res # "ok" THEN [values EXCEPT !.op = "sort_by"]
        ELSE [values EXCEPT !.op = "sort_by",
                            !.val = SubSeq(values.val, 2, Len(values.val))]

SorterLists == UNION { [1..n -> SortVals] : n \in 0..MaxSortLen }

OtherLists(n) ==
    UNION { { [j \in 1..m |-> MkOther(j, ls[j])] : ls \in [1..m -> SortLens(n)] }
            : m \in 0..MaxOthers }

InitSort ==
    /\ GenIdle
    /\ ListIdle
    /\ sorter \in SorterLists
    /\ others \in OtherLists(Len(sorter))
    /\ key \in KeyNames
    /\ reverse \in BOOLEAN
    /\ srt = NoSort
    /\ MinMaxIdle

SortTogether ==
    /\ srt' = sort_together(sorter, others, key, reverse)
    /\ UNCHANGED <<genvars, listvars, mmvars, sorter, others, key, reverse>>

SortBy ==
    /\ srt' = sort_by(sorter, others, key, reverse)
    /\ UNCHANGED <<genvars, listvars, mmvars, sorter, others, key, reverse>>

NextSort == SortTogether \/ SortBy

SpecSort == InitSort /\ [][NextSort]_vars

(***************************************************************************)
(* The min / max functions of min_max.py, called with a list.  An entry of *)
(* the list is None, written <<>>, or a number x, written <<x>>; so is a   *)
(* returned value or index.  float("-inf") and float("inf") are the two    *)
(* numbers below and above every other number of the model.                *)
(***************************************************************************)
NegInf == -100
PosInf == 100

Absent == <<>>
Some(x) == <<x>>

Numbers == {NegInf, -1, 0, 1, PosInf}

ValueLists == UNION { [1..n -> {Absent} \cup {Some(x) : x \in Numbers}] : n \in 0..MaxValues }

MinMaxKeys == {"None", "neg", "abs"}

\* the key functions handed in: lambda x: -x and abs
call_key(k, x) ==
    IF k = "neg" THEN 0 - x
    ELSE IF k = "abs" THEN (IF x < 0 THEN 0 - x ELSE x)
    ELSE x

\* max(iterable) and min(iterable) of numbers, the iterable not empty
func_of(f, s) ==
    IF f = "max" THEN CHOOSE x \in {s[i] : i \in 1..Len(s)} : \A i \in 1..Len(s) : s[i] <= x
    ELSE CHOOSE x \in {s[i] : i \in 1..Len(s)} : \A i \in 1..Len(s) : x <= s[i]

\* A list.index that finds the last occurrence.
list_index_last(s, x) ==
    IF \E i \in 1..Len(s) : s[i] = Some(x)
    THEN [res |-> "ok", val |-> Some((CHOOSE i \in 1..Len(s) :
                 s[i] = Some(x) /\ \A j \in 1..Len(s) : s[j] = Some(x) => j <= i) - 1)]
    ELSE [res |-> "ValueError", val |-> Absent]

\* values.index(x): the 0-based index of the first entry equal to the
\* number x, ValueError when there is none
list_index(s, x) ==
    IF \E i \in 1..Len(s) : s[i] = Some(x)
    THEN [res |-> "ok", val |-> Some((CHOOSE i \in 1..Len(s) :
                 s[i] = Some(x) /\ \A j \in 1..Len(s) : s[j] = Some(x) => i <= j) - 1)]
    ELSE [res |-> "ValueError", val |-> Absent]

\* the numbers _none_yielder yields: default for None, else key(val) or val
none_yielder(vs, k, default) ==
    [i \in 1..Len(vs) |-> IF vs[i] = Absent THEN default ELSE call_key(k, vs[i][1])]

\* An arg_none_max that starts from float("inf").
max_default_inf == PosInf

\* float("-inf"), the default of arg_none_max and none_max
max_default == NegInf

\* float("inf"), the default of arg_none_min and none_min
min_default == PosInf

\* An _arg_none_minmax that takes an empty list as one without values.
arg_none_minmax_empty_none(f, vs, default, k) ==
    IF Len(vs) = 0 THEN [res |-> "ok", val |-> Absent]
    ELSE LET r == func_of(f, none_yielder(vs, k, default))
         IN  IF r = default THEN [res |-> "ok", val |-> Absent]
             ELSE list_index(vs, r)

\* _arg_none_minmax for a list (a Sequence with an index method)
arg_none_minmax(f, vs, default, k) ==
    IF Len(vs) = 0 THEN [res |-> "ValueError", val |-> Absent]
    ELSE LET r == func_of(f, none_yielder(vs, k, default))
         IN  IF r = default THEN [res |-> "ok", val |-> Absent]
             ELSE list_index(vs, r)

\* func(values, key=key): the first entry whose key is extremal; comparing
\* None, or handing it to a key function, is a TypeError
func_with_key(f, vs, k) ==
    IF Len(vs) = 1 /\ k = "None" THEN [res |-> "ok", val |-> vs[1]]
    ELSE IF \E i \in 1..Len(vs) : vs[i] = Absent
    THEN [res |-> "TypeError", val |-> Absent]
    ELSE LET keys == [i \in 1..Len(vs) |-> call_key(k, vs[i][1])]
             best == func_of(f, keys)
             first == CHOOSE i \in 1..Len(vs) :
                          keys[i] = best /\ \A j \in 1..Len(vs) : keys[j] = best => i <= j
         IN  [res |-> "ok", val |-> vs[first]]

\* _argfunc for a list
argfunc(f, vs, k) ==
    IF Len(vs) = 0 THEN [res |-> "ValueError", val |-> Absent]
    ELSE LET e == func_with_key(f, vs, k)
         IN  IF e.res # "ok" THEN e
             ELSE IF e.val = Absent THEN [res |-> "ok", val |-> Some(0)]
             ELSE list_index(vs, e.val[1])

\* _none_minmax: func of nothing raises, which is re-raised as ValueError
none_minmax(f, vs, default, k) ==
    IF Len(vs) = 0 THEN [res |-> "ValueError", val |-> Absent]
    ELSE LET r == func_of(f, none_yielder(vs, k, default))
         IN  IF r = default THEN [res |-> "ok", val |-> Absent]
             ELSE [res |-> "ok", val |-> Some(r)]

arg_none_max(vs, k) == arg_none_minmax("max", vs, max_default, k)
arg_none_min(vs, k) == arg_none_minmax("min", vs, min_default, k)
arg_max(vs, k) == argfunc("max", vs, k)
arg_min(vs, k) == argfunc("min", vs, k)
none_max(vs, k) == none_minmax("max", vs, max_default, k)
none_min(vs, k) == none_minmax("min", vs, min_default, k)

Called(op, r) == [op |-> op, res |-> r.res, val |-> r.val]

InitMinMax ==
    /\ GenIdle
    /\ ListIdle
    /\ SortIdle
    /\ mmvalues \in ValueLists
    /\ mmkey \in MinMaxKeys
    /\ mm = NoMinMax

ArgNoneMax ==
    /\ mm' = Called("arg_none_max", arg_none_max(mmvalues, mmkey))
    /\ UNCHANGED <<genvars, listvars, sortvars, mmvalues, mmkey>>

ArgNoneMin ==
    /\ mm' = Called("arg_none_min", arg_none_min(mmvalues, mmkey))
    /\ UNCHANGED <<genvars, listvars, sortvars, mmvalues, mmkey>>

ArgMax ==
    /\ mm' = Called("arg_max", arg_max(mmvalues, mmkey))
    /\ UNCHANGED <<genvars, listvars, sortvars, mmvalues, mmkey>>

ArgMin ==
    /\ mm' = Called("arg_min", arg_min(mmvalues, mmkey))
    /\ UNCHANGED <<genvars, listvars, sortvars, mmvalues, mmkey>>

NoneMax ==
    /\ mm' = Called("none_max", none_max(mmvalues, mmkey))
    /\ UNCHANGED <<genvars, listvars, sortvars, mmvalues, mmkey>>

NoneMin ==
    /\ mm' = Called("none_min", none_min(mmvalues, mmkey))
    /\ UNCHANGED <<genvars, listvars, sortvars, mmvalues, mmkey>>

NextMinMax == ArgNoneMax \/ ArgNoneMin \/ ArgMax \/ ArgMin \/ NoneMax \/ NoneMin

SpecMinMax == InitMinMax /\ [][NextMinMax]_vars

(***************************************************************************)
(* Properties of the generator.                                            *)
(***************************************************************************)
Range(s) == {s[i] : i \in 1..Len(s)}

RECURSIVE CartesianProduct(_)
CartesianProduct(a) ==
    IF Len(a) = 0 THEN {<<>>}
    ELSE {Append(t, x) : t \in CartesianProduct(SubSeq(a, 1, Len(a) - 1)),
                         x \in Range(a[Len(a)])}

P == ProductSize(args)

Valid == NonEmptyArgs(args)

Ended == gen[Top(args)].gs = "closed"

HasEmptySeq(a) == \E k \in 1..Len(a) : Len(a[k]) = 0

IsCombination(t, a) == Len(t) = Len(a) /\ \A k \in 1..Len(a) : t[k] \in Range(a[k])

C2_ExhaustedAfterP ==
    (stop /\ Valid /\ res # "none") =>
        /\ (calls <= P => /\ Len(out) = calls
                          /\ (calls > 0 => res = "yield"))
        /\ (calls > P => /\ Len(out) = P
                         /\ res = "StopIteration")

\* What the code does there: P combinations, then the generator is closed;
\* the (P+1)-th call raises RuntimeError and only later calls StopIteration.
ExactlyPThenClosed ==
    (stop /\ Valid /\ res # "none") =>
        /\ (calls <= P => /\ Len(out) = calls
                          /\ ~Ended
                          /\ (calls > 0 => res = "yield"))
        /\ (calls = P + 1 => Len(out) = P /\ Ended /\ res = "RuntimeError")
        /\ (calls > P + 1 => Len(out) = P /\ Ended /\ res = "StopIteration")

\* C3 (as claimed): a consumer loop over a stop=True generator finishes
\* normally, with the P combinations and no error.
C3_LoopEndsNormally ==
    (stop /\ Valid /\ loop # "iterating") => (loop = "finished" /\ Len(out) = P)

C6_EmptyRejectedAtCreation ==
    (res # "none" /\ HasEmptySeq(args)) => (res = "ValueError" /\ calls = 0)

\* C7 (as claimed): creating a generator with no input sequence fails with
\* InvalidInput (ValueError), for either stop flag.
C7_NoSequenceRejected ==
    (res # "none" /\ Len(args) = 0) => res = "ValueError"

(***************************************************************************)
(* Properties of sim_product_list.                                         *)
(***************************************************************************)
\* What Python takes for a positive integer: an int, or the bool True (1).
PositiveInteger(n) == n.type \in {"int", "bool"} /\ n.val >= 1

\* C8: with a positive integer num and non-empty inputs, sim_product_list
\* returns a list of exactly num combinations, the first num draws of the
\* stop=False generator; when num > P its first P entries are a complete
\* enumeration of the Cartesian product without duplicates.
C8_ListOfCount ==
    (lst.res # "none" /\ PositiveInteger(num) /\ Valid) =>
        /\ lst.res = "list"
        /\ Len(lst.val) = num.val
        /\ \A i \in 1..Len(out) : lst.val[i] = out[i]
        /\ (num.val > P =>
                /\ Cardinality(Range(SubSeq(lst.val, 1, P))) = P
                /\ Range(SubSeq(lst.val, 1, P)) = CartesianProduct(args))

C8_Witness ==
    /\ lst.res = "list" /\ num.type = "int" /\ Valid
    /\ Len(args) >= 2 /\ P >= 4 /\ num.val > P
    /\ Len(out) = num.val

\* C9: a num that is given and is not a positive integer (zero, negative,
\* not an integer) makes sim_product_list fail with ValueError, and no
\* combination is drawn from any generator.
C9_BadCountRejected ==
    (lst.res # "none" /\ num # None /\ ~PositiveInteger(num)) =>
        (lst.res = "ValueError" /\ lst.draws = 0 /\ lst.val = <<>>)

C9_Witness ==
    lst.res = "ValueError" /\ num = Int_(0) /\ Valid /\ Len(args) >= 2

(***************************************************************************)
(* Properties of sort_together.                                            *)
(***************************************************************************)
EqualLengths == \A j \in 1..Len(others) : Len(others[j]) = Len(sorter)

\* the positional rows (sorter[i], others[0][i], ...)
InputRows ==
    [i \in 1..Len(sorter) |-> <<sorter[i]>> \o [j \in 1..Len(others) |-> others[j][i]]]

\* the rows of a tuple of columns
RowsOf(cols) ==
    IF Len(cols) = 0 THEN <<>>
    ELSE [i \in 1..Len(cols[1]) |-> [j \in 1..Len(cols) |-> cols[j][i]]]

RowKey(row) == apply_key(key, row[1])

WithKey(rows, kv) == SelectSeq(rows, LAMBDA r : RowKey(r) = kv)

\* C10: for sorter and others of equal length, the rows of sort_together's
\* result are the input rows, each kept whole, in ascending order of
\* key(sorter element) (descending with reverse), and rows of equal key are
\* in their input order.
C10_StableCoSort ==
    (srt.op = "sort_together" /\ EqualLengths) =>
        /\ srt.res = "ok"
        /\ LET R == RowsOf(srt.val)
           IN  /\ Len(R) = Len(InputRows)
               /\ \A i \in 1..Len(R) : Len(R[i]) = 1 + Len(others)
               /\ \A i, j \in 1..Len(R) :
                     i < j => IF reverse THEN RowKey(R[i]) >= RowKey(R[j])
                                         ELSE RowKey(R[i]) <= RowKey(R[j])
               /\ \A kv \in {RowKey(r) : r \in Range(InputRows) \cup Range(R)} :
                     WithKey(R, kv) = WithKey(InputRows, kv)

C10_Witness ==
    /\ srt.op = "sort_together" /\ srt.res = "ok" /\ reverse
    /\ Len(sorter) = 3 /\ Len(others) >= 1 /\ EqualLengths
    /\ RowKey(InputRows[1]) = RowKey(InputRows[3])
    /\ RowKey(InputRows[1]) < RowKey(InputRows[2])

\* C11 (as claimed): for others as long as the sorter, the empty length
\* included, sort_together returns 1 + len(others) sequences, the sorter
\* column first and every other column at its input position, and sort_by
\* returns the len(others) other columns.
C11_SameArity ==
    (srt.op # "none" /\ EqualLengths) =>
        /\ srt.res = "ok"
        /\ LET skip == IF srt.op = "sort_together" THEN 1 ELSE 0
           IN  /\ Len(srt.val) = skip + Len(others)
               /\ (skip = 1 => Range(srt.val[1]) = Range(sorter))
               /\ \A j \in 1..Len(others) :
                     Range(srt.val[skip + j]) = Range(others[j])

\* What the code does there: the arity is that of the inputs as soon as
\* there is a row; without rows both functions return the empty tuple.
ArityOfRows ==
    (srt.op # "none" /\ EqualLengths) =>
        /\ srt.res = "ok"
        /\ (Len(sorter) = 0 => srt.val = <<>>)
        /\ (Len(sorter) > 0 =>
               Len(srt.val) = (IF srt.op = "sort_together" THEN 1 ELSE 0) + Len(others))

\* C12: sort_together and sort_by, given another sequence shorter or longer
\* than the sorter, fail with ValueError and return nothing.
C12_LengthMismatch ==
    (srt.op # "none" /\ ~EqualLengths) =>
        (srt.res = "ValueError" /\ srt.val = <<>>)

C12_Witness ==
    /\ srt.op = "sort_together" /\ srt.res = "ValueError"
    /\ Len(sorter) = 2 /\ Len(others) = 2
    /\ Len(others[1]) = Len(sorter) /\ Len(others[2]) < Len(sorter)

(***************************************************************************)
(* Properties of the min / max functions.                                  *)
(***************************************************************************)
PresentAt == {i \in 1..Len(mmvalues) : mmvalues[i] # Absent}

KeyAt(i) == call_key(mmkey, mmvalues[i][1])

MaxOp == mm.op \in {"arg_none_max", "arg_max", "none_max"}

ArgNoneOp == mm.op \in {"arg_none_max", "arg_none_min"}

\* the entry at i is present and no present entry has a better key
Extremal(i) ==
    /\ i \in PresentAt
    /\ \A j \in PresentAt : IF MaxOp THEN KeyAt(j) <= KeyAt(i) ELSE KeyAt(i) <= KeyAt(j)

\* the (1-based) position of the first extremal entry
FirstExtremal == CHOOSE i \in PresentAt : Extremal(i) /\ \A j \in PresentAt : Extremal(j) => i <= j

Sentinel == IF MaxOp THEN NegInf ELSE PosInf

OnlySentinels == \A i \in PresentAt : mmvalues[i] = Some(Sentinel)

Finite == \A i \in PresentAt : mmvalues[i][1] \notin {NegInf, PosInf}

\* C13 (as claimed): on a non-empty sequence arg_none_max / arg_none_min
\* return None if every entry is None, and otherwise the index of the first
\* present entry that is >= (<=) every present entry.
C13_FirstExtremalIndex ==
    (ArgNoneOp /\ mmkey = "None" /\ Len(mmvalues) >= 1) =>
        /\ mm.res = "ok"
        /\ (PresentAt = {} => mm.val = Absent)
        /\ (PresentAt # {} => mm.val = Some(FirstExtremal - 1))

\* C13 (amended): None is returned also when every present entry is the
\* default the search starts from, float("-inf") for arg_none_max and
\* float("inf") for arg_none_min; in every other case the result is the
\* index of the first present entry that is >= (<=) every present entry.
C13_FirstExtremalIndexUnlessSentinel ==
    (ArgNoneOp /\ mmkey = "None" /\ Len(mmvalues) >= 1) =>
        /\ mm.res = "ok"
        /\ (OnlySentinels => mm.val = Absent)
        /\ (~OnlySentinels =>
               /\ mm.val = Some(FirstExtremal - 1)
               /\ mmvalues[mm.val[1] + 1] # Absent)

C13_Witness ==
    /\ mm.op = "arg_none_max" /\ mmkey = "None" /\ Len(mmvalues) = 3
    /\ mmvalues[1] = Absent /\ mmvalues[2] = Some(1) /\ mmvalues[3] = Some(1)
    /\ mm.val = Some(1)

C16_KeyComparesElementReturned ==
    (mm.op \in {"none_max", "none_min", "arg_none_max", "arg_none_min"}
        /\ PresentAt # {} /\ Finite) =>
        /\ mm.res = "ok"
        /\ (ArgNoneOp => mm.val = Some(FirstExtremal - 1))
        /\ (~ArgNoneOp => mm.val = mmvalues[FirstExtremal])

(***************************************************************************)
(* The order of emission and the cursors of the layers.                    *)
(***************************************************************************)
RECURSIVE DrawAt(_, _)
\* the t-th draw (from 0) of a pass over the sequences a, in closed form
DrawAt(a, t) ==
    IF Len(a) = 1 THEN <<a[1][(t % Len(a[1])) + 1]>>
    ELSE LET front == SubSeq(a, 1, Len(a) - 1)
             last == a[Len(a)]
             subsize == ProductSize(front)
             lcm_k == lcm(subsize, Len(last))
         IN  Append(DrawAt(front, t % subsize),
                    last[(((t \div lcm_k) + (t % lcm_k)) % Len(last)) + 1])

\* What the code does there: every draw, in either stop mode and in every
\* pass, is the one the closed form gives.
EmissionOrder ==
    Valid => \A i \in 1..Len(out) : out[i] = DrawAt(args, (i - 1) % P)

\* [(0,0),(1,1),(0,2),(1,0),(0,1),(1,2)] over ([0,1],[0,1,2])
Example23 ==
    << <<10, 20>>, <<11, 21>>, <<10, 22>>, <<11, 20>>, <<10, 21>>, <<11, 22>> >>

\* [(0,0),(1,1),(2,2),(0,1),(1,2),(2,0),(0,2),(1,0),(2,1)] over ([0,1,2],[0,1,2])
Example33 ==
    << <<10, 20>>, <<11, 21>>, <<12, 22>>, <<10, 21>>, <<11, 22>>, <<12, 20>>,
       <<10, 22>>, <<11, 20>>, <<12, 21>> >>

\* the list a consumer loop has built when it is over
ListIs(a, l) ==
    (stop /\ args = a /\ loop # "iterating") => (loop = "finished" /\ out = l)

\* C17 (as claimed): the t-th draw of a pass is given by the closed form
\* DrawAt, and list(sim_product([0,1],[0,1,2])) and
\* list(sim_product([0,1,2],[0,1,2])) are the two lists of the docstring.
C17_OrderAndExamples ==
    /\ EmissionOrder
    /\ ListIs(<<MkSeq(1, 2), MkSeq(2, 3)>>, Example23)
    /\ ListIs(<<MkSeq(1, 3), MkSeq(2, 3)>>, Example33)

\* What the code does there: the draws of the two examples are the lists of
\* the docstring, in order; the loop over them ends in an error.
ExampleDraws ==
    /\ (args = <<MkSeq(1, 2), MkSeq(2, 3)>> /\ Len(out) >= 6) => SubSeq(out, 1, 6) = Example23
    /\ (args = <<MkSeq(1, 3), MkSeq(2, 3)>> /\ Len(out) >= 9) => SubSeq(out, 1, 9) = Example33

\* C18: after t draws every nested layer has yielded exactly t times, and a
\* draw that opens a pass of the outer layer (draw kP+1) is emitted with the
\* cursor (index, start, iters) of every layer at 0.
C18_LockStep ==
    (Valid /\ res = "yield") =>
        /\ \A k \in 1..Len(args) : gen[k].pulls = Len(out)
        /\ ((Len(out) - 1) % P = 0 =>
               \A k \in 1..Len(args) :
                   gen[k].index = 0 /\ gen[k].start = 0 /\ gen[k].iters = 0)

C18_Witness ==
    /\ ~stop /\ Valid /\ res = "yield" /\ Len(args) = 3 /\ P >= 8
    /\ Len(out) = 2 * P + 1

\* C19: whenever a layer over more than one sequence has emitted, its
\* cursor has 0 <= iters < subsize * Lk, start = iters div lcm_k with
\* 0 <= start < gcd(subsize, Lk), and index = start + (iters mod lcm_k).
C19_CursorInvariant ==
    \A k \in 2..Len(args) :
        gen[k].gs = "suspended" =>
            LET subsize == ProductSize(SubSeq(args, 1, k - 1))
                Lk == Len(args[k])
                lcm_k == lcm(subsize, Lk)
                c == gen[k]
            IN  /\ 0 <= c.iters /\ c.iters < subsize * Lk
                /\ c.start = c.iters \div lcm_k
                /\ 0 <= c.start /\ c.start < gcd(subsize, Lk)
                /\ c.index = c.start + (c.iters % lcm_k)

C19_Witness ==
    /\ ~stop /\ Len(args) = 3 /\ Len(args[1]) = 2 /\ Len(args[2]) = 3 /\ Len(args[3]) = 2
    /\ gen[3].gs = "suspended" /\ gen[3].start = 1 /\ gen[3].iters > 6
    /\ Len(out) > P

\* C20 (as claimed): the first P combinations do not depend on the stop
\* flag, so sim_product_list with num=None returns the list that
\* sim_product_list with num=P returns.
C20_NoneIsP ==
    (lst.res # "none" /\ num = None /\ Valid) =>
        /\ lst.res = "list"
        /\ lst.val = sim_product_list(args, Int_(P)).val

\* What the code does there: a stop=True generator yields what a stop=False
\* one yields, up to its end; both follow the closed form.
FirstPassSame ==
    (lst.res # "none" /\ num = None /\ Valid) =>
        /\ lst.res = "RuntimeError"
        /\ lst.draws = P + 1

=============================================================================
